---- MODULE Spec2Model ----
(***************************************************************************)
(* Model of itsa-server/file-upload-handler: the chunk registry            *)
(* FILE_TRANSMISSIONS, the request handler recieveFile with each of its    *)
(* asynchronous continuations as one step, the assembler getFinalFile and  *)
(* the helpers getUniqueFilename and removeFile (src/index.js).            *)
(*                                                                         *)
(* Node runs one callback at a time: a step of the model is the code that  *)
(* runs between two I/O completions (a callback and the promise reactions  *)
(* it triggers).  Requests are numbered in the order they arrive.          *)
(***************************************************************************)
EXTENDS Integers, Sequences, FiniteSets, TLC

\* ------------------------------------------------------------- bounds
NumOps == 3             \* requests handled in one run
NumOpsMany == 3         \* requests when several transmissions run
NumOpsFail == 2         \* requests when I/O or the consumer may fail
NumClients == 2         \* distinct x-clientid values
NumTrans == 2           \* distinct x-transid values
MaxPart == 3            \* largest x-partial
MaxPartMany == 1        \* largest x-partial when several transmissions run
MaxPartFew == 2         \* largest x-partial when I/O may fail
MaxLen == 2             \* largest payload length
NumOpsMeta == 2         \* requests when the last chunk carries x-data
MaxLenMeta == 2         \* largest payload length when the last chunk carries x-data
MaxFaults == 1          \* I/O operations that may fail in one run
MaxSuffix == 2          \* largest suffix of a file that exists before a name is asked for
NumExt == 1             \* distinct file extensions
globalMaxFileSize == 3  \* the maxFileSize handed to handleFile

\* ---------------------------------------------------------- constants
DEF_MAX_FILESIZE == 10 * 1024 * 1024

Ops == 1..NumOps
Clients == 1..NumClients
TransIds == 1..NumTrans
Parts == 1..MaxPart

\* a path is <<id, suffix>>: folder + id, then '-' + suffix when suffix > 0
NoPath == <<0, 0>>

VARIABLES
    FILE_TRANSMISSIONS, \* clientId -> (transId -> transmission object)
    heap,               \* the transmission objects, named by the request that made them
    ops,                \* the requests: headers, position and locals of each handler
    nreq,               \* requests arrived so far
    disk,               \* path -> content of every existing file
    rm,                 \* the removeFile calls in progress, as sets of paths
    faults              \* I/O failures so far

vars == <<FILE_TRANSMISSIONS, heap, ops, nreq, disk, rm, faults>>

\* ------------------------------------------------------------ helpers
Put(f, k, v) == [x \in (DOMAIN f) \cup {k} |-> IF x = k THEN v ELSE f[x]]

Drop(f, k) == [x \in (DOMAIN f) \ {k} |-> f[x]]

RECURSIVE SumOver(_, _)
SumOver(S, f) ==
    IF S = {} THEN 0
    ELSE LET x == CHOOSE y \in S : TRUE IN f[x] + SumOver(S \ {x}, f)

\* an object that nothing refers to any more
NullObj == [cummulatedSize |-> 0, count |-> 0, filename |-> 0, data |-> "undef", parts |-> <<>>]

IdleOp ==
    [pc |-> "idle", clientId |-> 0, transId |-> 0, partialId |-> 0, len |-> 0,
     filename |-> 0, xdata |-> "none", totalSize |-> 0,
     fullFilename |-> NoPath, reply |-> "none", err |-> "none", asm |-> FALSE,
     tx |-> 0, partCount |-> 0, part |-> 0, reading |-> NoPath,
     tmpBuildFilename |-> NoPath,
     wstream |-> "none", originalFilename |-> 0]

\* request.payload of request o: len bytes that no other request carries
Payload(o, len) == [i \in 1..len |-> o]

\* idGenerator(TMP_FILE): a fresh id for each call; k = 1 names the chunk
\* file of request o, k = 2 the file it assembles
idGenerator(o, k) == 2 * (o - 1) + k

\* nameReserved: the first of base, base-1, base-2, ... that does not exist
RECURSIVE nameReserved(_, _, _)
nameReserved(d, id, i) ==
    IF <<id, i>> \in DOMAIN d THEN nameReserved(d, id, i + 1) ELSE <<id, i>>

getUniqueFilename(d, id) == nameReserved(d, id, 0)

\* fullFilename + (extention || ''): extention = 0 stands for none
WithExtension(path, extention) ==
    IF extention = 0 THEN path ELSE Append(path, extention)

\* lib/file-utils.js nameReserved: the first of base, base-1, ... that does
\* not exist, and then the extension
RECURSIVE fileUtils_nameReserved(_, _, _, _)
fileUtils_nameReserved(d, id, i, extention) ==
    IF <<id, i>> \in DOMAIN d
    THEN fileUtils_nameReserved(d, id, i + 1, extention)
    ELSE WithExtension(<<id, i>>, extention)

fileUtils_getUniqueFilename(d, id, extention) == fileUtils_nameReserved(d, id, 0, extention)

\* maxFileSize || globalMaxFileSize || DEF_MAX_FILESIZE
EffectiveMax(maxFileSize) ==
    IF maxFileSize # 0 THEN maxFileSize
    ELSE IF globalMaxFileSize # 0 THEN globalMaxFileSize
    ELSE DEF_MAX_FILESIZE

\* mutant: the declared size is not looked at
QuotaExceededCumulatedOnly(totalSize, cummulatedSize, maxFileSize) ==
    cummulatedSize > maxFileSize

\* mutant: the cumulated size is not looked at
QuotaExceededDeclaredOnly(totalSize, cummulatedSize, maxFileSize) ==
    totalSize > maxFileSize

\* mutant: a transmission that reaches the ceiling is refused
QuotaExceededAtCeiling(totalSize, cummulatedSize, maxFileSize) ==
    (totalSize > maxFileSize) \/ (cummulatedSize >= maxFileSize)

\* the abort condition; totalSize = 0 stands for a missing x-total-size
QuotaExceeded(totalSize, cummulatedSize, maxFileSize) ==
    (totalSize > maxFileSize) \/ (cummulatedSize > maxFileSize)

\* Object.size(): the number of own keys of a transmission object
Size(obj) ==
    1 + (IF obj.count # 0 THEN 1 ELSE 0) + (IF obj.filename # 0 THEN 1 ELSE 0)
      + (IF obj.data # "undef" THEN 1 ELSE 0) + Cardinality(DOMAIN obj.parts)

\* JSON.parse(data, REVIVER): the parsed value, or "throws"
JSONparse(xdata) == IF xdata = "good" THEN "parsed" ELSE "throws"

\* an object stays while the registry or a running getFinalFile refers to it
Gc(h, ft, os) ==
    LET live == UNION {{ft[c][t] : t \in DOMAIN ft[c]} : c \in DOMAIN ft}
                \cup {os[o].tx : o \in Ops}
    IN [id \in Ops |-> IF id \in live THEN h[id] ELSE NullObj]

Init ==
    /\ FILE_TRANSMISSIONS = <<>>
    /\ heap = [id \in Ops |-> NullObj]
    /\ ops = [o \in Ops |-> IdleOp]
    /\ nreq = 0
    /\ disk = <<>>
    /\ rm = {}
    /\ faults = 0

\* ------------------------------------------------------------ actions
\* mutant: the client is removed with whatever it still holds
DeleteTransmissionAndClient(ft, c, t) == Drop(ft, c)

\* mutant: the client stays when its last transmission goes
DeleteTransmissionOnly(ft, c, t) == [ft EXCEPT ![c] = Drop(@, t)]

\* delete FILE_TRANSMISSIONS[clientId][transId], and the client when it is empty
DeleteTransmission(ft, c, t) ==
    LET ft1 == [ft EXCEPT ![c] = Drop(@, t)]
    IN IF Cardinality(DOMAIN ft1[c]) = 0 THEN Drop(ft1, c) ELSE ft1

\* mutant: the size is written back without the chunks added meanwhile
CummulateLastOnly(ft, h, c, t, o, len) ==
    IF t \in DOMAIN ft[c]
    THEN [h EXCEPT ![ft[c][t]].cummulatedSize = len]
    ELSE [h EXCEPT ![o] = [NullObj EXCEPT !.cummulatedSize = len]]

\* the objects after one more chunk of len bytes for (c, t); request o
\* makes the object when there is none
Cummulate(ft, h, c, t, o, len) ==
    IF t \in DOMAIN ft[c]
    THEN [h EXCEPT ![ft[c][t]].cummulatedSize = @ + len]
    ELSE [h EXCEPT ![o] = [NullObj EXCEPT !.cummulatedSize = len]]

\* recieveFile up to its first asynchronous call
recieveFile(o, req) ==
    /\ o = nreq + 1
    /\ ops[o].pc = "idle"
    /\ LET c == req.clientId
           t == req.transId
           ft1 == IF c \in DOMAIN FILE_TRANSMISSIONS THEN FILE_TRANSMISSIONS
                  ELSE Put(FILE_TRANSMISSIONS, c, <<>>)
           heap1 == Cummulate(ft1, heap, c, t, o, req.len)
           ft2 == IF t \in DOMAIN ft1[c] THEN ft1 ELSE [ft1 EXCEPT ![c] = Put(@, t, o)]
           maxFileSize == EffectiveMax(0)
           started == [IdleOp EXCEPT !.clientId = c, !.transId = t,
                          !.partialId = req.partialId, !.len = req.len,
                          !.filename = req.filename, !.xdata = req.xdata,
                          !.totalSize = req.totalSize]
       IN IF QuotaExceeded(req.totalSize, heap1[ft2[c][t]].cummulatedSize, maxFileSize)
          THEN /\ FILE_TRANSMISSIONS' = DeleteTransmission(ft2, c, t)
               /\ ops' = [ops EXCEPT ![o] = [started EXCEPT !.pc = "done", !.reply = "403"]]
               /\ heap' = Gc(heap1, FILE_TRANSMISSIONS', ops')
          ELSE /\ FILE_TRANSMISSIONS' = ft2
               /\ ops' = [ops EXCEPT ![o] = [started EXCEPT !.pc = "write"]]
               /\ heap' = heap1
    /\ nreq' = nreq + 1
    /\ UNCHANGED <<disk, rm, faults>>

\* the locals of a handler are gone once it has ended
Ended(op, err) ==
    [op EXCEPT !.pc = "done", !.err = err, !.tx = 0, !.partCount = 0, !.part = 0,
               !.reading = NoPath]

\* mutant: the path saved first for an index is kept
RecordChunkKeepFirst(obj, partialId, fullFilename) ==
    IF partialId \in DOMAIN obj.parts THEN obj
    ELSE [obj EXCEPT !.parts = Put(@, partialId, fullFilename)]

\* mutant: the chunk is filed under its order of arrival
RecordChunkByArrival(obj, partialId, fullFilename) ==
    [obj EXCEPT !.parts = Put(@, Cardinality(DOMAIN @) + 1, fullFilename)]

\* FILE_TRANSMISSIONS[clientId][transId][partialId] = fullFilename
RecordChunk(obj, partialId, fullFilename) ==
    [obj EXCEPT !.parts = Put(@, partialId, fullFilename)]

\* mutant: the catch of JSON.parse leaves data unset
SetTerminalNoDefault(obj, partialId, filename, xdata) ==
    IF filename = 0 THEN obj
    ELSE [obj EXCEPT !.count = partialId, !.filename = filename,
                     !.data = IF xdata = "none" THEN "empty"
                              ELSE IF JSONparse(xdata) # "throws" THEN JSONparse(xdata)
                              ELSE "undef"]

\* the chunk that carries x-filename sets count, filename and data
SetTerminal(obj, partialId, filename, xdata) ==
    IF filename = 0 THEN obj
    ELSE [obj EXCEPT !.count = partialId, !.filename = filename,
                     !.data = IF xdata # "none" /\ JSONparse(xdata) # "throws"
                              THEN JSONparse(xdata) ELSE "empty"]

\* mutant: count is not required to be set
IsCompleteWithoutCount(obj) == Size(obj) = obj.count + 4

\* mutant: one key too few is counted
IsCompleteOffByOne(obj) == obj.count # 0 /\ Size(obj) = obj.count + 3

\* partCount && size() === partCount + 4
IsComplete(obj) == obj.count # 0 /\ Size(obj) = obj.count + 4

\* The chunk is written (getUniqueFilename, createWriteStream, write,
\* endPromise) and the reaction to endPromise saves its filename and decides
\* on completion.  The file has a name of its own and nothing else reads the
\* registry in between: the write and the reaction are one step.
saveChunk(o) ==
    /\ ops[o].pc = "write"
    /\ LET c == ops[o].clientId
           t == ops[o].transId
           fullFilename == getUniqueFilename(disk, idGenerator(o, 1))
       IN /\ disk' = Put(disk, fullFilename, Payload(o, ops[o].len))
          /\ IF c \notin DOMAIN FILE_TRANSMISSIONS \/ t \notin DOMAIN FILE_TRANSMISSIONS[c]
             THEN \* TypeError, logged by the outer catch: nothing replies
                  /\ ops' = [ops EXCEPT ![o] = [Ended(@, "type") EXCEPT
                                                   !.fullFilename = fullFilename]]
                  /\ UNCHANGED heap
             ELSE LET id == FILE_TRANSMISSIONS[c][t]
                      obj == SetTerminal(RecordChunk(heap[id], ops[o].partialId, fullFilename),
                                         ops[o].partialId, ops[o].filename, ops[o].xdata)
                  IN /\ heap' = [heap EXCEPT ![id] = obj]
                     /\ IF IsComplete(obj)
                        THEN ops' = [ops EXCEPT ![o].pc = "final", ![o].asm = TRUE,
                                       ![o].tx = id, ![o].fullFilename = fullFilename]
                        ELSE ops' = [ops EXCEPT ![o].pc = "done", ![o].reply = "BUSY",
                                       ![o].fullFilename = fullFilename]
    /\ UNCHANGED <<FILE_TRANSMISSIONS, nreq, rm, faults>>

\* the write of the chunk fails: the outer catch logs it and nothing replies
saveChunkFails(o) ==
    /\ ops[o].pc = "write"
    /\ faults < MaxFaults
    /\ \E created \in BOOLEAN :
          disk' = IF created
                  THEN Put(disk, getUniqueFilename(disk, idGenerator(o, 1)), <<>>)
                  ELSE disk
    /\ ops' = [ops EXCEPT ![o] = Ended(@, "io")]
    /\ faults' = faults + 1
    /\ UNCHANGED <<FILE_TRANSMISSIONS, heap, nreq, rm>>

\* appendFileData(part) up to readFile: the path is looked up in the object
\* when the read starts; readFile(undefined) throws
StartRead(op, obj, part) ==
    IF part \in DOMAIN obj.parts
    THEN [op EXCEPT !.pc = "read", !.part = part, !.reading = obj.parts[part]]
    ELSE Ended(op, "type")

\* getFinalFile: getUniqueFilename has resolved, the output stream is
\* created and the first read starts
openFinal(o) ==
    /\ ops[o].pc = "final"
    /\ LET tmpBuildFilename == getUniqueFilename(disk, idGenerator(o, 2))
           obj == heap[ops[o].tx]
       IN /\ disk' = Put(disk, tmpBuildFilename, <<>>)
          /\ ops' = [ops EXCEPT ![o] =
                        StartRead([@ EXCEPT !.tmpBuildFilename = tmpBuildFilename,
                                            !.partCount = obj.count, !.wstream = "open"],
                                  obj, 1)]
    /\ heap' = Gc(heap, FILE_TRANSMISSIONS, ops')
    /\ UNCHANGED <<FILE_TRANSMISSIONS, nreq, rm, faults>>

\* readFile of one chunk ends: its data is written to the output and the
\* next read starts, or the output is ended after part partCount
appendFileData(o) ==
    /\ ops[o].pc = "read"
    /\ IF ops[o].reading \in DOMAIN disk
       THEN /\ disk' = Put(disk, ops[o].tmpBuildFilename,
                           disk[ops[o].tmpBuildFilename] \o disk[ops[o].reading])
            /\ ops' = [ops EXCEPT ![o] =
                         IF ops[o].part = ops[o].partCount
                         THEN [@ EXCEPT !.pc = "end", !.reading = NoPath]
                         ELSE StartRead(@, heap[ops[o].tx], ops[o].part + 1)]
       ELSE \* the chunk is gone: readFile rejects, the error is logged
            /\ ops' = [ops EXCEPT ![o] = Ended(@, "io")]
            /\ UNCHANGED disk
    /\ heap' = Gc(heap, FILE_TRANSMISSIONS, ops')
    /\ UNCHANGED <<FILE_TRANSMISSIONS, nreq, rm, faults>>

\* readFile fails on a chunk that exists
appendFileDataFails(o) ==
    /\ ops[o].pc = "read"
    /\ faults < MaxFaults
    /\ ops[o].reading \in DOMAIN disk
    /\ ops' = [ops EXCEPT ![o] = Ended(@, "io")]
    /\ heap' = Gc(heap, FILE_TRANSMISSIONS, ops')
    /\ faults' = faults + 1
    /\ UNCHANGED <<FILE_TRANSMISSIONS, nreq, disk, rm>>

\* transmission.each(...): removeFile for every chunk the object names
RemoveChunks(obj) == {obj.parts[k] : k \in DOMAIN obj.parts}

\* the removeFile calls in progress after one more set of calls
Launch(pending, files) == IF files = {} THEN pending ELSE pending \cup {files}

\* endPromise of the output resolves: the removal of the chunks starts (it
\* is not awaited), getFinalFile resolves and the callback is called
endFinal(o) ==
    /\ ops[o].pc = "end"
    /\ rm' = Launch(rm, RemoveChunks(heap[ops[o].tx]))
    /\ ops' = [ops EXCEPT ![o].pc = "callback", ![o].wstream = "closed",
                          ![o].originalFilename = heap[ops[o].tx].filename,
                          ![o].tx = 0, ![o].partCount = 0, ![o].part = 0]
    /\ heap' = Gc(heap, FILE_TRANSMISSIONS, ops')
    /\ UNCHANGED <<FILE_TRANSMISSIONS, nreq, disk, faults>>

\* endPromise of the output rejects: finally still starts the removal
endFinalFails(o) ==
    /\ ops[o].pc = "end"
    /\ faults < MaxFaults
    /\ rm' = Launch(rm, RemoveChunks(heap[ops[o].tx]))
    /\ \E w \in {"open", "closed"} :
          ops' = [ops EXCEPT ![o] = [Ended(@, "io") EXCEPT !.wstream = w]]
    /\ heap' = Gc(heap, FILE_TRANSMISSIONS, ops')
    /\ faults' = faults + 1
    /\ UNCHANGED <<FILE_TRANSMISSIONS, nreq, disk>>

\* the callback's promise resolves: reply, delete the entry, remove the file
callbackResolves(o) ==
    /\ ops[o].pc = "callback"
    /\ LET c == ops[o].clientId
           t == ops[o].transId
       IN IF c \notin DOMAIN FILE_TRANSMISSIONS
          THEN \* TypeError after the reply, in a promise nobody awaits
               /\ ops' = [ops EXCEPT ![o].pc = "done", ![o].reply = "OK", ![o].err = "type"]
               /\ UNCHANGED <<FILE_TRANSMISSIONS, heap, rm>>
          ELSE /\ FILE_TRANSMISSIONS' = DeleteTransmission(FILE_TRANSMISSIONS, c, t)
               /\ ops' = [ops EXCEPT ![o].pc = "done", ![o].reply = "OK"]
               /\ heap' = Gc(heap, FILE_TRANSMISSIONS', ops')
               /\ rm' = Launch(rm, {ops[o].tmpBuildFilename})
    /\ UNCHANGED <<nreq, disk, faults>>

\* the callback throws or its promise rejects: nothing runs after it
callbackRejects(o) ==
    /\ ops[o].pc = "callback"
    /\ ops' = [ops EXCEPT ![o].pc = "done", ![o].err = "consumer"]
    /\ UNCHANGED <<FILE_TRANSMISSIONS, heap, nreq, disk, rm, faults>>

\* The removeFile calls started together end: each file that exists is
\* unlinked.  Nothing creates a path again, so the existence check and the
\* unlink are one step, and so are the calls of one loop.
removeFile(files) ==
    /\ files \in rm
    /\ disk' = [x \in (DOMAIN disk) \ files |-> disk[x]]
    /\ rm' = rm \ {files}
    /\ UNCHANGED <<FILE_TRANSMISSIONS, heap, ops, nreq, faults>>

\* fsp.unlink fails on one file that exists
removeFileFails(files) ==
    /\ files \in rm
    /\ faults < MaxFaults
    /\ \E f \in files \cap DOMAIN disk :
          disk' = [x \in (DOMAIN disk) \ (files \ {f}) |-> disk[x]]
    /\ rm' = rm \ {files}
    /\ faults' = faults + 1
    /\ UNCHANGED <<FILE_TRANSMISSIONS, heap, ops, nreq>>

\* every step that follows the arrival of a request, without an I/O failure
Continue ==
    \/ \E o \in Ops : saveChunk(o)
    \/ \E o \in Ops : openFinal(o)
    \/ \E o \in Ops : appendFileData(o)
    \/ \E o \in Ops : endFinal(o)
    \/ \E o \in Ops : callbackResolves(o)
    \/ \E files \in rm : removeFile(files)

\* the I/O failures and the failure of the consumer
Fail ==
    \/ \E o \in Ops : callbackRejects(o)
    \/ \E o \in Ops : saveChunkFails(o)
    \/ \E o \in Ops : appendFileDataFails(o)
    \/ \E o \in Ops : endFinalFails(o)
    \/ \E files \in rm : removeFileFails(files)

\* ----------------------------------------------------------- requests
\* The chunks of one transmission: every request carries the same client
\* and transmission id, any x-partial, with or without x-filename.
RequestsOne(o) ==
    {[clientId |-> 1, transId |-> 1, partialId |-> p, len |-> n,
      filename |-> f, xdata |-> "none", totalSize |-> 0] :
        p \in Parts, n \in 1..MaxLen, f \in {0, o}}

\* generateClientId hands out the client ids in order, and a client numbers
\* its transmissions in order: a request carries an id seen before or the next
NextId(used, bound) ==
    IF used = {} THEN 1
    ELSE LET m == CHOOSE x \in used : \A y \in used : y <= x
         IN IF m < bound THEN m + 1 ELSE bound

UsedClients == {ops[o].clientId : o \in 1..nreq}

UsedTrans(c) == {ops[o].transId : o \in {x \in 1..nreq : ops[x].clientId = c}}

\* x-total-size is missing (0) or declares more than the ceiling
TotalSizes == {0, globalMaxFileSize + 1}

\* The chunks of several transmissions of several clients, some of them
\* declaring a total size.
RequestsMany(o) ==
    UNION {{[clientId |-> c, transId |-> t, partialId |-> p, len |-> n,
             filename |-> f, xdata |-> "none", totalSize |-> s] :
               t \in 1..NextId(UsedTrans(c), NumTrans), p \in 1..MaxPartMany,
               n \in 1..MaxLen, f \in {0, o}, s \in TotalSizes} :
           c \in 1..NextId(UsedClients, NumClients)}

\* The chunks of one short transmission.
RequestsFew(o) ==
    {[clientId |-> 1, transId |-> 1, partialId |-> p, len |-> n,
      filename |-> f, xdata |-> "none", totalSize |-> 0] :
        p \in 1..MaxPartFew, n \in 1..MaxLen, f \in {0, o}}

\* one transmission; neither I/O nor the consumer fails
Next ==
    \/ \E o \in {nreq + 1} \cap Ops : \E req \in RequestsOne(o) : recieveFile(o, req)
    \/ Continue

Spec == Init /\ [][Next]_vars

\* several transmissions; neither I/O nor the consumer fails
NextMany ==
    \/ \E o \in {nreq + 1} \cap (1..NumOpsMany) : \E req \in RequestsMany(o) :
          recieveFile(o, req)
    \/ Continue

SpecMany == Init /\ [][NextMany]_vars

\* one short transmission; I/O and the consumer may fail
NextFail ==
    \/ \E o \in {nreq + 1} \cap (1..NumOpsFail) : \E req \in RequestsFew(o) :
          recieveFile(o, req)
    \/ Continue
    \/ Fail

SpecFail == Init /\ [][NextFail]_vars

\* x-data of the chunk that carries x-filename: missing, JSON, or not JSON
MetaData == {"none", "good", "bad"}

\* The chunks of one short transmission whose last chunk may carry x-data.
RequestsMeta(o) ==
    {[clientId |-> 1, transId |-> 1, partialId |-> p, len |-> n,
      filename |-> fx[1], xdata |-> fx[2], totalSize |-> 0] :
        p \in 1..MaxPartFew, n \in 1..MaxLenMeta,
        fx \in {<<0, "none">>} \cup {<<o, x>> : x \in MetaData}}

\* one short transmission with x-data; neither I/O nor the consumer fails
NextMeta ==
    \/ \E o \in {nreq + 1} \cap (1..NumOpsMeta) : \E req \in RequestsMeta(o) :
          recieveFile(o, req)
    \/ Continue

SpecMeta == Init /\ [][NextMeta]_vars

\* ------------------------------------------------------ the allocator
\* the names idGenerator's first id can lead to, without and with extension
Extensions == 0..NumExt

Names ==
    {WithExtension(<<idGenerator(1, 1), i>>, e) : i \in 0..MaxSuffix, e \in Extensions}

\* any of these files may exist when a name is asked for
InitNames ==
    /\ disk \in {[x \in S |-> <<>>] : S \in SUBSET Names}
    /\ FILE_TRANSMISSIONS = <<>>
    /\ heap = [id \in Ops |-> NullObj]
    /\ ops = [o \in Ops |-> IdleOp]
    /\ nreq = 0
    /\ rm = {}
    /\ faults = 0

\* one call of getUniqueFilename(folder) of index.js, until it resolves
callGetUniqueFilename(o) ==
    /\ ops[o].pc = "idle"
    /\ ops' = [ops EXCEPT ![o].pc = "done",
                          ![o].fullFilename = getUniqueFilename(disk, idGenerator(1, 1))]
    /\ UNCHANGED <<FILE_TRANSMISSIONS, heap, nreq, disk, rm, faults>>

\* one call of getUniqueFilename(folder, extention) of lib/file-utils.js
callFileUtilsGetUniqueFilename(o, extention) ==
    /\ ops[o].pc = "idle"
    /\ ops' = [ops EXCEPT ![o].pc = "done",
                          ![o].fullFilename =
                              fileUtils_getUniqueFilename(disk, idGenerator(1, 1), extention)]
    /\ UNCHANGED <<FILE_TRANSMISSIONS, heap, nreq, disk, rm, faults>>

NextNames ==
    \/ callGetUniqueFilename(1)
    \/ \E extention \in Extensions : callFileUtilsGetUniqueFilename(1, extention)

SpecNames == InitNames /\ [][NextNames]_vars

\* ------------------------------------------------------- removeFile
\* The two I/O operations of one removeFile call as two steps.  The handler
\* awaits no removeFile call, so the steps above take a set of calls as one
\* step; here the calls are followed one by one to their result.
ChunkPaths == {getUniqueFilename(<<>>, idGenerator(o, 1)) : o \in Ops}

\* any of the chunk files may exist
InitRemove ==
    /\ disk \in {[x \in S |-> <<>>] : S \in SUBSET ChunkPaths}
    /\ FILE_TRANSMISSIONS = <<>>
    /\ heap = [id \in Ops |-> NullObj]
    /\ ops = [o \in Ops |-> IdleOp]
    /\ nreq = 0
    /\ rm = {}
    /\ faults = 0

\* removeFile(filename) is called: fsp.exists starts
callRemoveFile(o, filename) ==
    /\ o = nreq + 1
    /\ ops[o].pc = "idle"
    /\ ops' = [ops EXCEPT ![o].pc = "exists", ![o].reading = filename]
    /\ nreq' = nreq + 1
    /\ UNCHANGED <<FILE_TRANSMISSIONS, heap, disk, rm, faults>>

\* fsp.exists resolves: unlink starts if the file exists, else the call ends
removeFileExists(o) ==
    /\ ops[o].pc = "exists"
    /\ ops' = [ops EXCEPT ![o].pc = IF ops[o].reading \in DOMAIN disk
                                    THEN "unlink" ELSE "done"]
    /\ UNCHANGED <<FILE_TRANSMISSIONS, heap, nreq, disk, rm, faults>>

\* fsp.unlink ends: the file is gone, or ENOENT rejects the call
removeFileUnlink(o) ==
    /\ ops[o].pc = "unlink"
    /\ IF ops[o].reading \in DOMAIN disk
       THEN /\ disk' = Drop(disk, ops[o].reading)
            /\ ops' = [ops EXCEPT ![o].pc = "done"]
       ELSE /\ ops' = [ops EXCEPT ![o].pc = "done", ![o].err = "io"]
            /\ UNCHANGED disk
    /\ UNCHANGED <<FILE_TRANSMISSIONS, heap, nreq, rm, faults>>

NextRemove ==
    \/ \E o \in {nreq + 1} \cap Ops : \E filename \in ChunkPaths : callRemoveFile(o, filename)
    \/ \E o \in Ops : removeFileExists(o)
    \/ \E o \in Ops : removeFileUnlink(o)

SpecRemove == InitRemove /\ [][NextRemove]_vars

\* ------------------------------------------------- what the claims name
\* the ceiling of every request: no request overrides maxFileSize
Ceiling == EffectiveMax(0)

\* the requests received so far for one (clientId, transmissionId)
OpsOf(c, t) == {o \in 1..nreq : ops[o].clientId = c /\ ops[o].transId = t}

Registered(ft, c, t) == c \in DOMAIN ft /\ t \in DOMAIN ft[c]

\* the sum of the payload lengths received for one pair
Received(c, t) == SumOver(OpsOf(c, t), [o \in Ops |-> ops[o].len])

\* S holds the chunks 1..N once each, the last one carrying x-filename,
\* within the ceiling
ValidTransmission(S) ==
    /\ S # {}
    /\ \A i \in 1..Cardinality(S) : \E o \in S : ops[o].partialId = i
    /\ \A o \in S : (ops[o].filename # 0) <=> (ops[o].partialId = Cardinality(S))
    /\ \A o \in S : ops[o].totalSize <= Ceiling
    /\ SumOver(S, [o \in Ops |-> ops[o].len]) <= Ceiling

ChunkOf(S, i) == CHOOSE o \in S : ops[o].partialId = i

\* the payloads of the chunks 1..n of S, in index order
RECURSIVE Concatenation(_, _)
Concatenation(S, n) ==
    IF n = 0 THEN <<>>
    ELSE Concatenation(S, n - 1) \o Payload(ChunkOf(S, n), ops[ChunkOf(S, n)].len)

\* ------------------------------------------------------------------ C1
\* C1: when the chunks 1..N of a transmission arrive once each, in any
\* order, within the ceiling and without I/O failure, the file handed to the
\* callback holds the payloads in index order 1..N, and the result carries
\* the x-filename of chunk N.
C1_AssembledInIndexOrder ==
    \A c \in Clients, t \in TransIds :
        LET S == OpsOf(c, t)
        IN (ValidTransmission(S) /\ faults = 0) =>
              \A o \in S : ops[o].pc = "callback" =>
                  /\ ops[o].tmpBuildFilename \in DOMAIN disk
                  /\ disk[ops[o].tmpBuildFilename] = Concatenation(S, Cardinality(S))
                  /\ ops[o].originalFilename = ops[ChunkOf(S, Cardinality(S))].filename

\* chunks 2, 1, 3 arrived in that order and their file is with the callback
C1_Witness ==
    /\ nreq = 3
    /\ ValidTransmission(OpsOf(1, 1))
    /\ ops[1].partialId = 2 /\ ops[2].partialId = 1 /\ ops[3].partialId = 3
    /\ \E o \in Ops :
          /\ ops[o].pc = "callback"
          /\ disk[ops[o].tmpBuildFilename] = <<2, 1, 3>>

\* ------------------------------------------------------------------ C2
\* the step of request o that saves its chunk and decides on completion
SaveStep(o) == ops[o].pc = "write" /\ ops'[o].pc # "write" /\ ops'[o].err = "none"

C2_DecidedByCount ==
    \A o \in Ops : SaveStep(o) =>
        LET obj == heap'[FILE_TRANSMISSIONS[ops[o].clientId][ops[o].transId]]
            complete == obj.count # 0 /\ Cardinality(DOMAIN obj.parts) = obj.count
        IN /\ ops'[o].asm <=> complete
           /\ complete => ops'[o].pc = "final"
           /\ ~complete => ops'[o].pc = "done" /\ ops'[o].reply = "BUSY"

C2_ExactlyOneComplete ==
    \A c \in Clients, t \in TransIds :
        LET S == OpsOf(c, t)
        IN (ValidTransmission(S) /\ \A o \in S : ops[o].pc # "write") =>
              /\ Cardinality({o \in S : ops[o].asm}) = 1
              /\ \A o \in S : ~ops[o].asm => ops[o].reply = "BUSY"
              /\ \A o \in S : (ops[o].asm /\ ops[o].pc = "done") => ops[o].reply = "OK"

\* C2: a chunk arrival goes on to assemble the file exactly when, with its
\* chunk recorded, count is known and as many chunks are recorded as count
\* says, and replies BUSY otherwise; so of the chunks 1..N arriving once each
\* within the ceiling exactly one assembles and replies OK, the others reply
\* BUSY, wherever the chunk with x-filename arrives.
C2_CompletionByCount == [][C2_DecidedByCount]_vars /\ []C2_ExactlyOneComplete

\* the chunk with x-filename arrived first of three, and a later one completed
C2_Witness ==
    /\ nreq = 3
    /\ ValidTransmission(OpsOf(1, 1))
    /\ ops[1].filename # 0
    /\ ops[1].reply = "BUSY"
    /\ \E o \in {2, 3} : ops[o].reply = "OK"
    /\ \E o \in {2, 3} : ops[o].reply = "BUSY"

\* ------------------------------------------------------------------ C3
\* C3: once the payloads received for a pair add up to more than the
\* ceiling, no request of that pair gets an output file or a result.
C3_NoCompleteOverCeiling ==
    [][\A o \in Ops :
          Received(ops[o].clientId, ops[o].transId) > Ceiling =>
              /\ ~(ops[o].tmpBuildFilename = NoPath /\ ops'[o].tmpBuildFilename # NoPath)
              /\ ~(ops[o].pc # "callback" /\ ops'[o].pc = "callback")]_vars

\* ------------------------------------------------------------------ C4
\* the step in which request o is refused for its size
AbortStep(o) == ops[o].pc = "idle" /\ ops'[o].reply = "403"

\* the chunk files the registry holds for (c, t)
StoredChunks(c, t) ==
    IF Registered(FILE_TRANSMISSIONS, c, t)
    THEN RemoveChunks(heap[FILE_TRANSMISSIONS[c][t]])
    ELSE {}

\* C4: after the arrival that aborts a transmission for its size, none of
\* the chunk files stored for the transmission is on disk.
C4_AbortDeletesChunks ==
    [][\A o \in Ops : AbortStep(o) =>
          StoredChunks(ops'[o].clientId, ops'[o].transId) \cap DOMAIN disk' = {}]_vars

\* ------------------------------------------------------------------ C5
\* request o arrives and the size declared or cumulated is over the ceiling
ArrivesOverCeiling(o) ==
    /\ ops[o].pc = "idle"
    /\ ops'[o].pc # "idle"
    /\ LET c == ops'[o].clientId
           t == ops'[o].transId
           before == IF Registered(FILE_TRANSMISSIONS, c, t)
                     THEN heap[FILE_TRANSMISSIONS[c][t]].cummulatedSize ELSE 0
       IN ops'[o].totalSize > Ceiling \/ before + ops'[o].len > Ceiling

\* C5: the arrival that finds the ceiling exceeded removes the transmission
\* from the registry in that same step, removes the client too when it has
\* no other transmission, and replies 403.
C5_AbortRemovesEntry ==
    [][\A o \in Ops : ArrivesOverCeiling(o) =>
          LET c == ops'[o].clientId
              t == ops'[o].transId
          IN /\ ~Registered(FILE_TRANSMISSIONS', c, t)
             /\ (c \in DOMAIN FILE_TRANSMISSIONS') <=>
                   (c \in DOMAIN FILE_TRANSMISSIONS /\ (DOMAIN FILE_TRANSMISSIONS[c]) \ {t} # {})
             /\ ops'[o].reply = "403"
             /\ ops'[o].pc = "done"]_vars

\* a request was refused and its client stays for another transmission, and
\* another request was refused and its client is gone
C5_Witness ==
    /\ \E o \in Ops :
          /\ ops[o].reply = "403"
          /\ ops[o].clientId \in DOMAIN FILE_TRANSMISSIONS
          /\ DOMAIN FILE_TRANSMISSIONS[ops[o].clientId] = TransIds \ {ops[o].transId}
    /\ \E o \in Ops :
          /\ ops[o].reply = "403"
          /\ ops[o].clientId \notin DOMAIN FILE_TRANSMISSIONS

\* ------------------------------------------------------------------ C6
\* C6: every transmission in the registry has cummulatedSize at most the
\* ceiling.
C6_RegisteredWithinCeiling ==
    \A c \in DOMAIN FILE_TRANSMISSIONS : \A t \in DOMAIN FILE_TRANSMISSIONS[c] :
        heap[FILE_TRANSMISSIONS[c][t]].cummulatedSize <= Ceiling

\* a chunk that declared no size was refused for the cumulated size and its
\* transmission is gone, while another transmission is registered
C6_Witness ==
    /\ FILE_TRANSMISSIONS # <<>>
    /\ \E o \in Ops :
          /\ ops[o].reply = "403"
          /\ ops[o].totalSize = 0
          /\ ~Registered(FILE_TRANSMISSIONS, ops[o].clientId, ops[o].transId)

\* ------------------------------------------------------------------ C7
\* every chunk file written by a request of (c, t)
ChunkFilesOf(c, t) == {ops[o].fullFilename : o \in OpsOf(c, t)} \ {NoPath}

\* C7: when the request that assembled a transmission has replied OK, no
\* chunk file written for the transmission is on disk and the registry has
\* no entry for it.
C7_NothingLeftAfterAssembly ==
    [][\A o \in Ops :
          (ops[o].pc = "callback" /\ ops'[o].pc = "done" /\ ops'[o].reply = "OK") =>
              /\ ChunkFilesOf(ops[o].clientId, ops[o].transId) \cap DOMAIN disk' = {}
              /\ ~Registered(FILE_TRANSMISSIONS', ops[o].clientId, ops[o].transId)]_vars

\* ------------------------------------------------------------------ C8
\* what the registry holds for (c, t)
Entry(c, t) ==
    IF Registered(FILE_TRANSMISSIONS, c, t)
    THEN [present |-> TRUE, id |-> FILE_TRANSMISSIONS[c][t],
          obj |-> heap[FILE_TRANSMISSIONS[c][t]]]
    ELSE [present |-> FALSE, id |-> 0, obj |-> NullObj]

\* C8: a step of a request of one (clientId, transmissionId) leaves the
\* entry of every other pair as it was: presence, cummulatedSize, chunk
\* paths and count; and the removal of files changes no entry.
C8_OtherTransmissionsUntouched ==
    [][/\ \A o \in Ops : ops'[o] # ops[o] =>
             \A c \in Clients, t \in TransIds :
                 <<c, t>> # <<ops'[o].clientId, ops'[o].transId>> =>
                     Entry(c, t)' = Entry(c, t)
       /\ ops' = ops => (FILE_TRANSMISSIONS' = FILE_TRANSMISSIONS /\ heap' = heap)]_vars

\* one transmission of a client was assembled and answered while another
\* transmission of the same client is registered
C8_Witness ==
    \E o \in Ops :
        /\ ops[o].reply = "OK"
        /\ ops[o].clientId \in DOMAIN FILE_TRANSMISSIONS
        /\ \E o2 \in Ops :
              /\ ops[o2].clientId = ops[o].clientId
              /\ ops[o2].transId # ops[o].transId
              /\ Registered(FILE_TRANSMISSIONS, ops[o2].clientId, ops[o2].transId)

\* ------------------------------------------------------------------ C9
\* C9: the assembled file is on disk while the callback runs, and once the
\* request has ended and no removal is under way it is gone, whether the
\* callback's promise resolved or rejected.
C9_FinalFileRemoved ==
    \A o \in Ops :
        /\ ops[o].pc = "callback" => ops[o].tmpBuildFilename \in DOMAIN disk
        /\ (ops[o].pc = "done" /\ ops[o].originalFilename # 0 /\ rm = {} /\ faults = 0) =>
              ops[o].tmpBuildFilename \notin DOMAIN disk

\* ----------------------------------------------------------------- C10
\* C10: a request that ended on a storage failure has replied with an error.
C10_StorageErrorReplied ==
    \A o \in Ops : (ops[o].pc = "done" /\ ops[o].err = "io") => ops[o].reply = "Error"

\* ----------------------------------------------------------------- C11
\* the chunk files that exist
ChunkFilesOnDisk == ({ops[o].fullFilename : o \in Ops} \ {NoPath}) \cap DOMAIN disk

\* the registered pairs whose object names the file f
ReferencedBy(f) ==
    {p \in Clients \X TransIds : f \in StoredChunks(p[1], p[2])}

\* a request of (c, t) was refused for the size or answered OK
Finished(c, t) == \E o \in OpsOf(c, t) : ops[o].reply \in {"403", "OK"}

\* C11: every chunk file on disk is named by the chunk paths of exactly one
\* registered transmission, and once a transmission was completed or
\* aborted none of the chunk files written for it is on disk.
C11_ChunkFilesOwned ==
    /\ \A f \in ChunkFilesOnDisk : Cardinality(ReferencedBy(f)) = 1
    /\ \A c \in Clients, t \in TransIds :
          Finished(c, t) => ChunkFilesOf(c, t) \cap DOMAIN disk = {}

\* ----------------------------------------------------------------- C12
\* request o carries x-filename and an x-data that JSON.parse rejects
BadMetadata(o) == ops[o].filename # 0 /\ ops[o].xdata = "bad"

\* the step in which the chunk of such a request is saved
C12_ParseFailureTolerated ==
    \A o \in Ops :
        (/\ BadMetadata(o)
         /\ ops[o].pc = "write" /\ ops'[o].pc # "write"
         /\ Registered(FILE_TRANSMISSIONS, ops[o].clientId, ops[o].transId)) =>
            LET obj == heap'[FILE_TRANSMISSIONS[ops[o].clientId][ops[o].transId]]
                complete == Cardinality(DOMAIN obj.parts) = obj.count
            IN /\ obj.data = "empty"
               /\ obj.count = ops[o].partialId
               /\ ops[o].partialId \in DOMAIN obj.parts
               /\ ops'[o].err = "none"
               /\ ops'[o].asm <=> complete
               /\ ~complete => ops'[o].reply = "BUSY"

\* the chunks 1..N arrived once each, the last with such an x-data
C12_StillCompletes ==
    \A c \in Clients, t \in TransIds :
        LET S == OpsOf(c, t)
        IN (/\ ValidTransmission(S)
            /\ \E o \in S : BadMetadata(o)
            /\ \A o \in S : ops[o].pc # "write") =>
               /\ Cardinality({o \in S : ops[o].asm}) = 1
               /\ \A o \in S : ops[o].err = "none"
               /\ \A o \in S : ops[o].pc = "done" => ops[o].reply \in {"BUSY", "OK"}

\* C12: when JSON.parse rejects the x-data of the chunk with x-filename, the
\* transmission's data is the empty object, the chunk is recorded and not
\* refused, and completion is decided by the count as for any other chunk:
\* the chunks 1..N arriving once each still end in exactly one assembly.
C12_BadMetadataCompletes == [][C12_ParseFailureTolerated]_vars /\ []C12_StillCompletes

\* the chunk with x-filename and a bad x-data arrived first and was answered
\* BUSY, and the second chunk completed the transmission
C12_Witness ==
    /\ nreq >= 2
    /\ ValidTransmission(OpsOf(1, 1))
    /\ BadMetadata(1)
    /\ ops[1].reply = "BUSY"
    /\ ops[2].reply = "OK"

\* ----------------------------------------------------------------- C13
\* cummulatedSize of (c, t) before a chunk arrives: 0 without an entry
SizeBefore(c, t) ==
    IF Registered(FILE_TRANSMISSIONS, c, t)
    THEN heap[FILE_TRANSMISSIONS[c][t]].cummulatedSize ELSE 0

\* C13: an arriving chunk is refused (403) exactly when the size it declares
\* is over the ceiling or the cumulated size with this chunk is over the
\* ceiling; in every other case the transmission goes on: the entry is
\* registered with the chunk's length added and the chunk is written.
C13_AbortIffOverCeiling ==
    [][\A o \in Ops : (ops[o].pc = "idle" /\ ops'[o].pc # "idle") =>
          LET c == ops'[o].clientId
              t == ops'[o].transId
              over == \/ ops'[o].totalSize > Ceiling
                      \/ SizeBefore(c, t) + ops'[o].len > Ceiling
          IN /\ (ops'[o].reply = "403") <=> over
             /\ ~over => /\ ops'[o].pc = "write"
                         /\ Registered(FILE_TRANSMISSIONS', c, t)
                         /\ heap'[FILE_TRANSMISSIONS'[c][t]].cummulatedSize
                               = SizeBefore(c, t) + ops'[o].len]_vars

\* a transmission went on at exactly the ceiling and its next chunk, which
\* declares no size, was refused
C13_Witness ==
    \E o \in Ops :
        /\ ops[o].reply = "403"
        /\ ops[o].totalSize = 0
        /\ \A o2 \in OpsOf(ops[o].clientId, ops[o].transId) :
               ops[o2].totalSize = 0 /\ (o2 # o => ops[o2].reply # "403")
        /\ Received(ops[o].clientId, ops[o].transId) = Ceiling + ops[o].len

\* ----------------------------------------------------------------- C14
C14_NoEmptyClient ==
    \A c \in DOMAIN FILE_TRANSMISSIONS : DOMAIN FILE_TRANSMISSIONS[c] # {}

\* a client enters the registry with the first chunk that names it, and
\* leaves it in the step that removes its last transmission
C14_ClientLifecycle ==
    \A c \in Clients :
        /\ (c \notin DOMAIN FILE_TRANSMISSIONS /\ c \in DOMAIN FILE_TRANSMISSIONS') =>
               \E o \in Ops : /\ ops[o].pc = "idle" /\ ops'[o].pc = "write"
                              /\ ops'[o].clientId = c
                              /\ DOMAIN FILE_TRANSMISSIONS'[c] = {ops'[o].transId}
        /\ (c \in DOMAIN FILE_TRANSMISSIONS /\ c \notin DOMAIN FILE_TRANSMISSIONS') =>
               \E o \in Ops : /\ ops'[o].clientId = c
                              /\ ops[o].reply = "none"
                              /\ ops'[o].reply \in {"403", "OK"}
                              /\ DOMAIN FILE_TRANSMISSIONS[c] = {ops'[o].transId}
        /\ (c \in DOMAIN FILE_TRANSMISSIONS /\ c \in DOMAIN FILE_TRANSMISSIONS') =>
               DOMAIN FILE_TRANSMISSIONS'[c] # {}

\* C14: no client is in the registry without a transmission: a client is
\* created by the first chunk that names it and is removed in the step
\* (completion or abort) that removes its last transmission.
C14_NoEmptyClientSession == []C14_NoEmptyClient /\ [][C14_ClientLifecycle]_vars

\* a transmission was completed and its client left the registry while
\* another client is registered, and a refused chunk took its client along
C14_Witness ==
    /\ FILE_TRANSMISSIONS # <<>>
    /\ \E o \in Ops : ops[o].reply = "OK" /\ ops[o].clientId \notin DOMAIN FILE_TRANSMISSIONS
    /\ \E o \in Ops : ops[o].reply = "403" /\ ops[o].clientId \notin DOMAIN FILE_TRANSMISSIONS

\* ----------------------------------------------------------------- C15
\* C15: the path getUniqueFilename has returned does not exist, whatever
\* files existed before and whether or not an extension was given.
C15_ReturnedPathIsFree ==
    \A o \in Ops :
        (ops[o].pc = "done" /\ ops[o].fullFilename # NoPath) =>
            ops[o].fullFilename \notin DOMAIN disk

\* ----------------------------------------------------------------- C16
\* C16: the output stream of getFinalFile is closed on every way out: after
\* the last part was appended when all goes well, and also when a read or a
\* write fails on the way; no request ends with its output stream open.
C16_OutputStreamReleased ==
    \A o \in Ops :
        /\ ops[o].pc = "done" => ops[o].wstream # "open"
        /\ (ops[o].wstream = "closed" /\ ops[o].err = "none") =>
               ops[o].pc \in {"callback", "done"}

\* ----------------------------------------------------------------- C17
\* a removeFile call for a file that does not exist ends without a change
C17_MissingFileUntouched ==
    \A o \in Ops :
        (ops[o].pc = "exists" /\ ops'[o].pc = "done") =>
            disk' = disk /\ ops'[o].err = "none"

\* every removeFile call that has ended ended without error, its file gone
C17_NoErrorFileGone ==
    \A o \in Ops :
        (ops[o].pc = "done" /\ ops[o].reading # NoPath) =>
            ops[o].err = "none" /\ ops[o].reading \notin DOMAIN disk

\* C17: removeFile of a path that does not exist succeeds and changes
\* nothing, and removing a path twice, one call after the other or both at
\* once, ends without error with the file gone as after one call.
C17_RemoveIdempotent == [][C17_MissingFileUntouched]_vars /\ []C17_NoErrorFileGone

\* ----------------------------------------------------------------- C18
\* request o has looked up or created the record of its pair and has not
\* yet saved its chunk and decided on completion
InTransition(o) == ops[o].pc = "write"

\* C18: no two chunk arrivals of one (clientId, transmissionId) are between
\* the lookup of the record and the completion decision at the same time.
C18_SerializedPerTransmission ==
    \A o1, o2 \in Ops :
        (/\ o1 # o2
         /\ ops[o1].clientId = ops[o2].clientId
         /\ ops[o1].transId = ops[o2].transId) =>
            ~(InTransition(o1) /\ InTransition(o2))

\* ----------------------------------------------------------------- C19
\* the requests whose payload was added to the object made by request id:
\* that request and every later one of its pair
AddedTo(id) == {o \in OpsOf(ops[id].clientId, ops[id].transId) : o >= id}

\* the step in which request o saves a chunk under an index that the
\* transmission already holds
C19_Overwrite ==
    \A o \in Ops :
        (/\ SaveStep(o)
         /\ Registered(FILE_TRANSMISSIONS, ops[o].clientId, ops[o].transId)) =>
            LET id == FILE_TRANSMISSIONS[ops[o].clientId][ops[o].transId]
                i == ops[o].partialId
            IN i \in DOMAIN heap[id].parts =>
                  /\ heap'[id].parts[i] = ops'[o].fullFilename
                  /\ heap'[id].parts[i] # heap[id].parts[i]
                  /\ DOMAIN heap'[id].parts = DOMAIN heap[id].parts
                  /\ heap'[id].cummulatedSize = heap[id].cummulatedSize
                  /\ heap'[id].cummulatedSize = SumOver(AddedTo(id), [x \in Ops |-> ops[x].len])
                  /\ heap[id].parts[i] \in DOMAIN disk =>
                        /\ heap[id].parts[i] \in DOMAIN disk'
                        /\ \A id2 \in Ops : heap[id].parts[i] \notin RemoveChunks(heap'[id2])

\* a chunk file that no object names and no removeFile call is about
Orphan(f) ==
    /\ f \in DOMAIN disk
    /\ f \notin UNION rm
    /\ \A id \in Ops : f \notin RemoveChunks(heap[id])

C19_OrphanStays ==
    \A f \in ChunkPaths : Orphan(f) => f \in DOMAIN disk' /\ Orphan(f)'

\* C19: when a chunk is saved under an index the open transmission already
\* holds, the index is mapped to the later file, the number of recorded
\* chunks stays, cummulatedSize holds the lengths of both payloads, and the
\* earlier file stays on disk with no transmission naming it.
C19_DuplicateIndexOverwrites == [][C19_Overwrite]_vars /\ [][C19_OrphanStays]_vars

\* two chunks with the same index were saved: one entry, both lengths
\* counted, both files on disk, the later one recorded
C19_Witness ==
    /\ nreq = 2
    /\ ops[1].partialId = ops[2].partialId
    /\ ops[1].reply = "BUSY" /\ ops[2].reply = "BUSY"
    /\ Registered(FILE_TRANSMISSIONS, 1, 1)
    /\ LET obj == heap[FILE_TRANSMISSIONS[1][1]]
       IN /\ obj.cummulatedSize = ops[1].len + ops[2].len
          /\ Cardinality(DOMAIN obj.parts) = 1
          /\ {ops[1].fullFilename, ops[2].fullFilename} \subseteq DOMAIN disk
          /\ obj.parts[ops[1].partialId] = ops[1].fullFilename
          /\ Orphan(ops[2].fullFilename)

\* ----------------------------------------------------------------- C20
\* no chunk received for (c, t) carried x-filename
NoTerminal(c, t) == \A o \in OpsOf(c, t) : ops[o].filename = 0

\* such a transmission is not assembled and gets no OK
C20_NotCompleted ==
    \A c \in Clients, t \in TransIds :
        NoTerminal(c, t) =>
            /\ \A o \in OpsOf(c, t) :
                   /\ ~ops[o].asm
                   /\ ops[o].tmpBuildFilename = NoPath
                   /\ ops[o].reply \in {"none", "BUSY", "403"}
            /\ Registered(FILE_TRANSMISSIONS, c, t) =>
                   heap[FILE_TRANSMISSIONS[c][t]].count = 0

\* some request of (c, t) is refused for its size in this step
AbortOf(c, t) ==
    \E o \in Ops : AbortStep(o) /\ ops'[o].clientId = c /\ ops'[o].transId = t

\* and it keeps its entry and its chunk files until a chunk with x-filename
\* arrives or a chunk is refused
C20_StaysOpen ==
    \A c \in Clients, t \in TransIds :
        (NoTerminal(c, t) /\ NoTerminal(c, t)' /\ Registered(FILE_TRANSMISSIONS, c, t)) =>
            /\ ChunkFilesOf(c, t) \cap DOMAIN disk \subseteq DOMAIN disk'
            /\ ~AbortOf(c, t) =>
                  /\ Registered(FILE_TRANSMISSIONS', c, t)
                  /\ FILE_TRANSMISSIONS'[c][t] = FILE_TRANSMISSIONS[c][t]

\* C20: a transmission none of whose chunks carried x-filename is never
\* completed, however many chunks and whichever indices arrived: its entry
\* and its chunk files stay until a chunk with x-filename arrives or a
\* chunk is refused for the size.
C20_NoCompletionWithoutTerminal == []C20_NotCompleted /\ [][C20_StaysOpen]_vars

\* three chunks with the indices 1, 2 and 3 and no x-filename were saved:
\* the entry holds them and their files exist
C20_Witness ==
    /\ nreq = 3
    /\ NoTerminal(1, 1)
    /\ \A o \in Ops : ops[o].reply = "BUSY"
    /\ Registered(FILE_TRANSMISSIONS, 1, 1)
    /\ DOMAIN heap[FILE_TRANSMISSIONS[1][1]].parts = 1..3
    /\ Cardinality(ChunkFilesOf(1, 1) \cap DOMAIN disk) = 3

\* ----------------------------------------------------------------- C21
\* the step in which request o calls getFinalFile
InvokesAssembler(o) == ops[o].pc = "write" /\ ops'[o].pc = "final"

\* C21: when getFinalFile is called for a transmission, the transmission
\* holds a path for every index 1..count, whatever chunks arrived, also
\* chunks with an index above the count the chunk with x-filename set.
C21_AssemblerFindsEveryIndex ==
    [][\A o \in Ops : InvokesAssembler(o) =>
          \A i \in 1..heap'[ops'[o].tx].count : i \in DOMAIN heap'[ops'[o].tx].parts]_vars

\* ----------------------------------------------------------------- C22
\* the entry made by request id is the one registered for its pair; every
\* request in AddedTo(id) then arrived, and saved its chunk, in that entry
StillRegistered(id) ==
    /\ Registered(FILE_TRANSMISSIONS, ops[id].clientId, ops[id].transId)
    /\ FILE_TRANSMISSIONS[ops[id].clientId][ops[id].transId] = id

\* the step in which getFinalFile of request o resolves and the callback
\* is called
CallsCallback(o) == ops[o].pc = "end" /\ ops'[o].pc = "callback"

\* C22: getFinalFile is called at most once for a registry entry and the
\* callback at most once for a transmission, also when a chunk of the pair
\* arrives while the assembly or the callback is in progress.
C22_AssembledOnce ==
    [][\A o \in Ops :
          /\ InvokesAssembler(o) =>
                \A o2 \in AddedTo(ops'[o].tx) \ {o} : ~ops[o2].asm
          /\ (CallsCallback(o) /\ StillRegistered(ops[o].tx)) =>
                \A o2 \in AddedTo(ops[o].tx) \ {o} : ops[o2].originalFilename = 0]_vars

\* ----------------------------------------------------------------- C23
\* C23: every request that has run to its end has been answered, with
\* BUSY, OK or 403, also a request whose chunk was being written when
\* another chunk of its transmission was refused and the entry removed.
C23_EveryRequestReplied ==
    \A o \in Ops : ops[o].pc = "done" => ops[o].reply \in {"BUSY", "OK", "403"}

\* ----------------------------------------------------------------- C24
\* every request received for (c, t) has ended, none on a storage failure,
\* none was refused for the size and none found the transmission complete
AllFinishedOpen(c, t) ==
    /\ OpsOf(c, t) # {}
    /\ \A o \in OpsOf(c, t) :
           /\ ops[o].pc = "done" /\ ops[o].err # "io"
           /\ ops[o].reply # "403" /\ ~ops[o].asm

\* C24: once every request of a transmission that was neither aborted nor
\* completed has ended, however the requests overlapped, the entry's
\* cummulatedSize is the sum of the lengths of all chunks received for it
\* and the entry holds a path for every index received.
C24_NoLostUpdate ==
    \A c \in Clients, t \in TransIds :
        AllFinishedOpen(c, t) =>
            /\ Registered(FILE_TRANSMISSIONS, c, t)
            /\ LET obj == heap[FILE_TRANSMISSIONS[c][t]]
               IN /\ obj.cummulatedSize = Received(c, t)
                  /\ DOMAIN obj.parts = {ops[o].partialId : o \in OpsOf(c, t)}
                  /\ \A i \in DOMAIN obj.parts :
                        \E o \in OpsOf(c, t) :
                            ops[o].partialId = i /\ obj.parts[i] = ops[o].fullFilename

\* three chunks were received and saved, the first one saved after the
\* second with the same index: both lengths and both indices are there
C24_Witness ==
    /\ nreq = 3
    /\ AllFinishedOpen(1, 1)
    /\ ops[1].partialId = ops[2].partialId
    /\ ops[3].partialId # ops[1].partialId
    /\ LET obj == heap[FILE_TRANSMISSIONS[1][1]]
       IN /\ obj.parts[ops[1].partialId] = ops[1].fullFilename
          /\ obj.cummulatedSize = ops[1].len + ops[2].len + ops[3].len
          /\ Cardinality(DOMAIN obj.parts) = 2

====
